---- MODULE Spec2Model ----
(***************************************************************************)
(* Model of src/bristol_parser.py: BristolParser.parse and the functions   *)
(* it calls (landing document -> development + layout candidates,          *)
(* paginated listing crawl with card extraction and merge, per-record      *)
(* enrichment).                                                            *)
(*                                                                         *)
(* Representation of texts.  A text is a sequence of tokens (words,        *)
(* " " for a whitespace run, "," for a comma).  Python's None and the      *)
(* empty string are both the empty sequence: the code only ever tests      *)
(* them with `not x`, and formats None with an f-string (Fmt below).       *)
(* Cyrillic words are transliterated: "Sdan" = "Сдан", "Stroitsya" =       *)
(* "Строится", "Dom" = "Дом".  Areas are in tenths of a square metre,      *)
(* identifiers are the digit strings the regular expressions capture.      *)
(* Fields of Flat that no operation modelled here reads back (url, rooms,  *)
(* floor, floors_total) are left out; src is a ghost field naming the      *)
(* place a record was built from (<<page, card index>>, page 0 = layout).  *)
(***************************************************************************)
EXTENDS Integers, Sequences, FiniteSets, TLC

\* ---------------------------------------------------------------- bounds
MaxLayouts == 2        \* layout matches in the landing document
MaxCards == 2          \* cards on a listing page / cards met in one run
EarlyPages == 2        \* listing pages that may carry cards
MaxPairs == 2          \* cianId/parentId objects in a listing page

\* ------------------------------------------------------ program constants
max_pages == 50

\* ------------------------------------------------------------------ texts
None == <<>>

Falsy(x) == x = <<>>

\* f"{x}": None is formatted as the word None
Fmt(x) == IF x = None THEN <<"None">> ELSE x

RECURSIVE LStrip(_)
LStrip(s) == IF s # <<>> /\ Head(s) = " " THEN LStrip(Tail(s)) ELSE s

RECURSIVE RStrip(_)
RStrip(s) ==
    IF s # <<>> /\ s[Len(s)] = " " THEN RStrip(SubSeq(s, 1, Len(s) - 1)) ELSE s

\* str.strip()
Strip(s) == RStrip(LStrip(s))

\* str.lower(), word by word
LowerWord(w) ==
    CASE w = "Sdan" -> "sdan"
      [] w = "Dom" -> "dom"
      [] w = "Stroitsya" -> "stroitsya"
      [] OTHER -> w

Lower(s) == [k \in 1..Len(s) |-> LowerWord(s[k])]

\* "сдан" in s, "строит" in s, "строится" in s, "дом сдан" in s
HasSdan(s) == \E k \in 1..Len(s) : s[k] = "sdan"
HasStroit(s) == \E k \in 1..Len(s) : s[k] \in {"stroit", "stroitsya"}
HasStroitsya(s) == \E k \in 1..Len(s) : s[k] = "stroitsya"
HasDomSdan(s) ==
    \E k \in 1..(Len(s) - 2) : s[k] = "dom" /\ s[k + 1] = " " /\ s[k + 2] = "sdan"

\* ---------------------------------------------------------------- helpers
normalize_status(status) ==
    IF Falsy(status) THEN None
    ELSE IF HasSdan(Lower(Strip(status))) THEN <<"Sdan">>
    ELSE IF HasStroit(Lower(Strip(status))) THEN <<"Stroitsya">>
    ELSE status

\* re.search(r'([\d,]+)', text) and float(...replace(',', '.')) on the area
\* texts of the model; AreaError is the ValueError float() raises
AreaError == 0 - 1

parse_area(text) ==
    CASE text = "45,6" -> 456
      [] text = "30" -> 300
      [] text = "0" -> 0
      [] text = "1,2,3" -> AreaError
      [] OTHER -> 0

FirstComma(s) ==
    IF \E k \in 1..Len(s) : s[k] = ","
    THEN CHOOSE k \in 1..Len(s) : s[k] = "," /\ \A j \in 1..(k - 1) : s[j] # ","
    ELSE 0

\* a trailing parenthesised group is one token starting with "("
IsParen(w) == w \in {"(510k2)", "(x)"}

parse_building_from_house_name(house_name) ==
    IF Falsy(house_name) \/ FirstComma(house_name) = 0 THEN None
    ELSE LET part == Strip(SubSeq(house_name, FirstComma(house_name) + 1,
                                  Len(house_name)))
             cut == IF part # <<>> /\ IsParen(part[Len(part)])
                    THEN SubSeq(part, 1, Len(part) - 1) ELSE part
         IN Strip(cut)

\* ----------------------------------------------------------------- layouts
LayoutFlat(m, jk, k) ==
    LET building == parse_building_from_house_name(m.house_name)
    IN [id |-> m.offer_id,
        area |-> parse_area(m.area_str),
        price |-> m.price,
        address |-> IF ~Falsy(building)
                    THEN Fmt(jk.address) \o <<",", " ">> \o building
                    ELSE jk.address,
        year_built |-> jk.year_built,
        house_status |-> m.finish_date,
        images |-> IF ~Falsy(m.image_url) THEN <<m.image_url>> ELSE <<>>,
        src |-> <<0, k>>]

\* Flat(...) raises when parse_area raised
LayoutsRaise(matches) ==
    \E k \in 1..Len(matches) : parse_area(matches[k].area_str) = AreaError

_extract_flats_from_layouts(matches, jk) ==
    [k \in 1..Len(matches) |-> LayoutFlat(matches[k], jk, k)]

\* layouts_by_id.get(flat_id): the dict comprehension keeps the last record
\* of an id; <<>> is None, <<layout>> a hit
LayoutGet(layouts, flat_id) ==
    LET hits == {k \in 1..Len(layouts) : layouts[k].id = flat_id}
    IN IF hits = {} THEN <<>>
       ELSE <<layouts[CHOOSE k \in hits : \A j \in hits : j <= k]>>

\* ------------------------------------------------------------ identity filter
\* The listing page's content as the tokens the pattern
\* "cianId":(\d+)[^}]*?"parentId":(\d+) can see: <<"cianId", c>>,
\* <<"parentId", p>> and <<"}", "">>.
RECURSIVE FirstParent(_, _)
FirstParent(toks, k) ==
    IF k > Len(toks) THEN 0
    ELSE IF toks[k][1] = "}" THEN 0
    ELSE IF toks[k][1] = "parentId" THEN k
    ELSE FirstParent(toks, k + 1)

\* re.findall: leftmost match, then on from its end
RECURSIVE FindPairs(_, _)
FindPairs(toks, k) ==
    IF k > Len(toks) THEN <<>>
    ELSE IF toks[k][1] = "cianId" /\ FirstParent(toks, k + 1) # 0
         THEN <<<<toks[k][2], toks[FirstParent(toks, k + 1)][2]>>>>
              \o FindPairs(toks, FirstParent(toks, k + 1) + 1)
         ELSE FindPairs(toks, k + 1)

_extract_valid_flat_ids_any_parent(toks, jk_id) ==
    {FindPairs(toks, 1)[k][1] : k \in 1..Len(FindPairs(toks, 1))}

_extract_valid_flat_ids(toks, jk_id) ==
    {FindPairs(toks, 1)[k][1] :
        k \in {h \in 1..Len(FindPairs(toks, 1)) : FindPairs(toks, 1)[h][2] = jk_id}}

\* -------------------------------------------------------------------- merge
\* layout is <<>> (None) or <<flat>>
MergeAddress(card, layout, jk) ==
    LET a0 == IF card.has_addr THEN Strip(card.addr) ELSE None
        a1 == IF Falsy(a0) /\ layout # <<>> THEN layout[1].address ELSE a0
    IN IF Falsy(a1) THEN jk.address ELSE a1

MergeStatus(card, layout, jk) ==
    LET s0 == IF HasDomSdan(Lower(card.text)) THEN <<"Sdan">>
              ELSE IF HasStroitsya(Lower(card.text)) THEN <<"Stroitsya">>
              ELSE None
        s1 == IF Falsy(s0) /\ layout # <<>> THEN layout[1].house_status ELSE s0
        s2 == IF Falsy(s1) THEN jk.status ELSE s1
    IN normalize_status(s2)

_merge_with_layout_layout_first(card, layout, jk) ==
    [address |-> IF layout # <<>> /\ ~Falsy(layout[1].address)
                 THEN layout[1].address
                 ELSE MergeAddress(card, layout, jk),
     house_status |-> MergeStatus(card, layout, jk),
     images |-> IF layout # <<>> THEN layout[1].images ELSE <<>>,
     year_built |-> IF layout # <<>> /\ layout[1].year_built # 0
                    THEN layout[1].year_built ELSE jk.year_built]

_merge_with_layout(card, layout, jk) ==
    [address |-> MergeAddress(card, layout, jk),
     house_status |-> MergeStatus(card, layout, jk),
     images |-> IF layout # <<>> THEN layout[1].images ELSE <<>>,
     year_built |-> IF layout # <<>> /\ layout[1].year_built # 0
                    THEN layout[1].year_built ELSE jk.year_built]

\* --------------------------------------------------------------------- cards
\* A card is [id, raises, area, price, has_addr, addr, text]: id is what
\* _extract_flat_url_and_id yields ("" without a link or a /flat/<digits>
\* url), area and price what _parse_card_data's patterns yield (0 without a
\* match), raises says that a query on the element handle raises.
CardFlat(card, page, k, jk, layouts) ==
    LET m == _merge_with_layout(card, LayoutGet(layouts, card.id), jk)
    IN [id |-> card.id,
        area |-> card.area,
        price |-> card.price,
        address |-> m.address,
        year_built |-> m.year_built,
        house_status |-> m.house_status,
        images |-> m.images,
        src |-> <<page, k>>]

_parse_flat_card_no_gate(card, page, k, jk, layouts, valid_ids) ==
    IF card.raises THEN <<>>
    ELSE IF card.id = "" \/ (valid_ids # {} /\ card.id \notin valid_ids) THEN <<>>
    ELSE <<CardFlat(card, page, k, jk, layouts)>>

_parse_flat_card_filter_always(card, page, k, jk, layouts, valid_ids) ==
    IF card.raises THEN <<>>
    ELSE IF card.id = "" \/ card.id \notin valid_ids THEN <<>>
    ELSE IF card.area = 0 \/ card.price = 0 THEN <<>>
    ELSE <<CardFlat(card, page, k, jk, layouts)>>

\* <<>> is None, <<flat>> a record
_parse_flat_card(card, page, k, jk, layouts, valid_ids) ==
    IF card.raises THEN <<>>
    ELSE IF card.id = "" \/ (valid_ids # {} /\ card.id \notin valid_ids) THEN <<>>
    ELSE IF card.area = 0 \/ card.price = 0 THEN <<>>
    ELSE <<CardFlat(card, page, k, jk, layouts)>>

RECURSIVE PageFlatsFrom(_, _, _, _, _, _)
PageFlatsFrom(cards, k, page, jk, layouts, valid_ids) ==
    IF k > Len(cards) THEN <<>>
    ELSE _parse_flat_card(cards[k], page, k, jk, layouts, valid_ids)
         \o PageFlatsFrom(cards, k + 1, page, jk, layouts, valid_ids)

_parse_flats_page(d, page, jk, layouts) ==
    PageFlatsFrom(d.cards, 1, page, jk, layouts,
                  _extract_valid_flat_ids(d.html, jk.id))

\* flats.extend(page_flats)
Extend_prepend(flats_, page_flats) == page_flats \o flats_

Extend(flats_, page_flats) == flats_ \o page_flats

\* ---------------------------------------------------------------- enrichment
\* A detail document is [fail, meta, title, house, photos]: fail names the
\* call that raises ("none", "goto", "wait", "content"), meta and title the
\* building the two patterns capture (None without a match), house the
\* house name of the structured field, photos the fullUrl list.
DetailBuilding(d) ==
    IF ~Falsy(d.meta) THEN d.meta
    ELSE IF ~Falsy(d.title) THEN d.title
    ELSE IF ~Falsy(d.house) THEN parse_building_from_house_name(d.house)
    ELSE None

Enriched(flat, d, jk) ==
    [flat EXCEPT
        !.address = IF ~Falsy(DetailBuilding(d))
                    THEN Fmt(jk.address) \o <<",", " ">> \o DetailBuilding(d)
                    ELSE @,
        !.images = IF d.photos # <<>> THEN d.photos ELSE @]

\* the record after the try/except around _enrich_flat_details
_enrich_flat_details_write_first(flat, d, jk) ==
    IF d.fail \in {"goto", "wait"} THEN flat ELSE Enriched(flat, d, jk)

_enrich_flat_details(flat, d, jk) ==
    IF d.fail # "none" THEN flat ELSE Enriched(flat, d, jk)

\* ------------------------------------------------------------------- inputs
Seqs(S, n) == UNION {[1..m -> S] : m \in 0..n}

Max0(n) == IF n < 0 THEN 0 ELSE n

\* one object of the listing page's state: {"cianId":c, ... "parentId":p}
\* ("" = the key is missing)
ObjTokens(o) ==
    (IF o[1] # "" THEN <<<<"cianId", o[1]>>>> ELSE <<>>)
    \o (IF o[2] # "" THEN <<<<"parentId", o[2]>>>> ELSE <<>>)
    \o <<<<"}", "">>>>

RECURSIVE Html(_)
Html(objs) == IF objs = <<>> THEN <<>> ELSE ObjTokens(Head(objs)) \o Html(Tail(objs))

Card(id, raises, area, price, has_addr, addr, text) ==
    [id |-> id, raises |-> raises, area |-> area, price |-> price,
     has_addr |-> has_addr, addr |-> addr, text |-> text]

Match(offer_id, area_str, price, house_name, finish_date, image_url) ==
    [offer_id |-> offer_id, area_str |-> area_str, price |-> price,
     house_name |-> house_name, finish_date |-> finish_date,
     image_url |-> image_url]

House1 == <<"Sh", ",", " ", "1k1", " ", "(510k2)">>
House2 == <<"Sh", ",", "2k2">>
House3 == <<"Sh", " ", "3k3">>

RunMatches ==
    {Match("1", "45,6", 0, House1, <<"Sdan", " ", "v", " ", "2023">>, <<"img1">>),
     Match("2", "1,2,3", 5, House2, <<"4", " ", "kv">>, <<"img2">>)}

RunCards ==
    {Card("1", FALSE, 456, 5, FALSE, <<>>, <<>>),
     Card("2", FALSE, 300, 7, TRUE, <<" ", "A">>, <<"stroitsya">>),
     Card("1", FALSE, 0, 5, FALSE, <<>>, <<>>),
     Card("2", TRUE, 300, 7, FALSE, <<>>, <<>>)}

\* the objects of the listing pages of a run
RunObjs == {<<>>, <<<<"1", "100">>, <<"2", "200">>>>}

\* a listing document; objs is a ghost field, the objects html was written from
Doc(no_offers, objs, cards, next) ==
    [no_offers |-> no_offers, objs |-> objs, html |-> Html(objs),
     cards |-> cards, next |-> next]

Controls == {"active", "absent", "hidden"}

LandingDocs ==
    [newobject : {"", "100"},
     address : {<<"Y">>},
     status : {<<"Dom", " ", "sdan">>},
     year : {2025},
     layouts : Seqs(RunMatches, MaxLayouts)]

\* Listing documents page p of a run can show once the run has met n cards:
\* cards appear on the first EarlyPages pages and a run meets at most
\* MaxCards of them; a listing longer than EarlyPages pages carries no cards;
\* a page whose body reports no offers shows at most one card.
ListingDocs(p, n) ==
    {Doc(x.no_offers, x.objs, x.cards, x.next) :
        x \in {d \in [no_offers : BOOLEAN,
                      objs : RunObjs,
                      cards : Seqs(RunCards,
                                   IF p <= EarlyPages THEN Max0(MaxCards - n) ELSE 0),
                      next : Controls] :
                 /\ d.next = "active" => (p < EarlyPages \/ (n = 0 /\ d.cards = <<>>))
                 /\ d.no_offers => (Len(d.cards) <= 1 /\ d.objs = <<>>)
                 /\ p > EarlyPages => d.objs = <<>>}}

DetailDocs ==
    {d \in [fail : {"none", "goto", "wait", "content"},
            meta : {None, <<"1k1">>},
            title : {None, <<"2k2">>},
            house : {None, House1},
            photos : {<<>>, <<"p1", "p2">>}] :
        /\ d.fail # "none" => d.meta # None
        /\ d.meta # None => (d.title = None /\ d.house = None /\ d.photos # <<>>)
        /\ d.title # None => (d.house = None /\ d.photos # <<>>)
        /\ d.house # None => d.photos = <<>>}

\* -------------------------------------------------------------------- state
VARIABLES
    pc,             \* position in parse / _parse_flats
    landing,        \* the landing document
    newobject_id,   \* self.newobject_id
    jk,             \* the JK record
    layouts_flats,  \* layouts_flats of _parse_flats
    doc,            \* the listing document the page shows (<<>>, <<d>>)
    page_num,
    flats,
    idx,            \* index of the next record to enrich
    error,          \* the exception that left parse ("" = none)
    result,         \* the list parse returns
    ctl,            \* history: the next control found on each parsed page
    clicks,         \* history: activations of the next control
    noOffersAt,     \* history: first page read whose body signals no offers
    met,            \* history: number of cards the run has met
    pre_enrich,     \* history: flats when the crawl loop ended
    details         \* history: the detail documents of the enrichment attempts

vars == <<pc, landing, newobject_id, jk, layouts_flats, doc, page_num, flats, idx,
          error, result, ctl, clicks, noOffersAt, met, pre_enrich, details>>

hist == <<ctl, clicks, noOffersAt, met, pre_enrich, details>>

NoJk == [id |-> "", address |-> None, status |-> None, year_built |-> 0]

Init ==
    /\ pc = "open_jk"
    /\ landing = <<>>
    /\ newobject_id = ""
    /\ jk = NoJk
    /\ layouts_flats = <<>>
    /\ doc = <<>>
    /\ page_num = 0
    /\ flats = <<>>
    /\ idx = 0
    /\ error = ""
    /\ result = <<>>
    /\ ctl = <<>>
    /\ clicks = 0
    /\ noOffersAt = 0
    /\ met = 0
    /\ pre_enrich = <<>>
    /\ details = <<>>

\* an exception leaves parse (the finally clause only closes the browser)
Raise(e) ==
    /\ pc' = "raised"
    /\ error' = e

\* _open_jk_page: page.goto, page.wait_for_load_state
OpenJkPage ==
    /\ pc = "open_jk"
    /\ \E ok \in BOOLEAN, l \in LandingDocs :
        IF ok
        THEN /\ landing' = <<l>>
             /\ pc' = "extract_id"
             /\ UNCHANGED error
        ELSE /\ Raise("goto_jk")
             /\ UNCHANGED landing
    /\ UNCHANGED <<newobject_id, jk, layouts_flats, doc, page_num, flats, idx,
                   result, hist>>

\* _extract_newobject_id, _build_flats_url
ExtractNewobjectId ==
    /\ pc = "extract_id"
    /\ IF landing[1].newobject = ""
       THEN /\ Raise("NewObjectIdNotFound")
            /\ UNCHANGED newobject_id
       ELSE /\ newobject_id' = landing[1].newobject
            /\ pc' = "parse_jk"
            /\ UNCHANGED error
    /\ UNCHANGED <<landing, jk, layouts_flats, doc, page_num, flats, idx,
                   result, hist>>

\* _parse_jk, _extract_jk_fields (the fields the unit records read)
JkOf(l, id) ==
    [id |-> id,
     address |-> l.address,
     status |-> normalize_status(l.status),
     year_built |-> l.year]

ParseJk ==
    /\ pc = "parse_jk"
    /\ jk' = JkOf(landing[1], newobject_id)
    /\ pc' = "layouts"
    /\ UNCHANGED <<landing, newobject_id, layouts_flats, doc, page_num, flats, idx,
                   error, result, hist>>

\* _parse_flats, lines 362-363
ExtractLayouts ==
    /\ pc = "layouts"
    /\ IF LayoutsRaise(landing[1].layouts)
       THEN /\ Raise("layouts_value_error")
            /\ UNCHANGED layouts_flats
       ELSE /\ layouts_flats' = _extract_flats_from_layouts(landing[1].layouts, jk)
            /\ pc' = "goto_flats"
            /\ UNCHANGED error
    /\ UNCHANGED <<landing, newobject_id, jk, doc, page_num, flats, idx,
                   result, hist>>

\* _parse_flats, lines 366-367
GotoFlats ==
    /\ pc = "goto_flats"
    /\ \E out \in {"ok", "goto_flats", "wait_flats"}, d \in ListingDocs(1, 0) :
        IF out = "ok"
        THEN /\ doc' = <<d>>
             /\ pc' = "check_empty"
             /\ UNCHANGED error
        ELSE /\ Raise(out)
             /\ UNCHANGED doc
    /\ UNCHANGED <<landing, newobject_id, jk, layouts_flats, page_num, flats, idx,
                   result, hist>>

\* "Нет подходящих объявлений" in page.content()
NoOffersSignal_never(d) == FALSE

NoOffersSignal(d) == d.no_offers

NoteNoOffers(d, p) == IF noOffersAt = 0 /\ d.no_offers THEN p ELSE noOffersAt

\* _parse_flats, lines 369-375
CheckNoOffers ==
    /\ pc = "check_empty"
    /\ noOffersAt' = NoteNoOffers(doc[1], 1)
    /\ IF NoOffersSignal(doc[1])
       THEN /\ result' = layouts_flats
            /\ pc' = "returned"
            /\ UNCHANGED <<flats, page_num>>
       ELSE /\ flats' = <<>>
            /\ page_num' = 1
            /\ pc' = "loop"
            /\ UNCHANGED result
    /\ UNCHANGED <<landing, newobject_id, jk, layouts_flats, doc, idx, error,
                   ctl, clicks, met, pre_enrich, details>>

\* next_btn and next_btn.is_visible()
NextActive(d) == d.next = "active"

\* the test of the while loop
LoopRuns_one_more(n) == n <= max_pages + 1

LoopRuns(n) == n <= max_pages

\* one iteration of the while loop up to the break, lines 377-384
ParsePage ==
    /\ pc = "loop"
    /\ LoopRuns(page_num)
    /\ flats' = Extend(flats, _parse_flats_page(doc[1], page_num, jk, layouts_flats))
    /\ ctl' = Append(ctl, doc[1].next)
    /\ noOffersAt' = NoteNoOffers(doc[1], page_num)
    /\ met' = met + Len(doc[1].cards)
    /\ IF NextActive(doc[1])
       THEN /\ pc' = "click"
            /\ UNCHANGED pre_enrich
       ELSE /\ pc' = "enrich"
            /\ pre_enrich' = flats'
    /\ idx' = 1
    /\ UNCHANGED <<landing, newobject_id, jk, layouts_flats, doc, page_num, error,
                   result, clicks, details>>

\* the while test fails, line 377
LoopExit ==
    /\ pc = "loop"
    /\ ~LoopRuns(page_num)
    /\ pc' = "enrich"
    /\ idx' = 1
    /\ pre_enrich' = flats
    /\ UNCHANGED <<landing, newobject_id, jk, layouts_flats, doc, page_num, flats,
                   error, result, ctl, clicks, noOffersAt, met, details>>

\* next_btn.click(), wait_for_load_state, page_num += 1, lines 386-388
ClickNext ==
    /\ pc = "click"
    /\ \E out \in {"ok", "click", "wait_next"},
          d \in ListingDocs(page_num + 1, met) :
        /\ clicks' = IF out = "click" THEN clicks ELSE clicks + 1
        /\ IF out = "ok"
           THEN /\ doc' = <<d>>
                /\ page_num' = page_num + 1
                /\ pc' = "loop"
                /\ UNCHANGED error
           ELSE /\ Raise(out)
                /\ UNCHANGED <<doc, page_num>>
    /\ UNCHANGED <<landing, newobject_id, jk, layouts_flats, flats, idx, result,
                   ctl, noOffersAt, met, pre_enrich, details>>

\* enumerate(flats): the record the k-th pass of the loop takes, of n
EnrichOrder(k, n) == k

\* one pass of the enrichment loop, lines 391-396
EnrichNext ==
    /\ pc = "enrich"
    /\ idx <= Len(flats)
    /\ \E d \in DetailDocs :
        /\ flats' = [flats EXCEPT ![EnrichOrder(idx, Len(flats))] =
                        _enrich_flat_details(@, d, jk)]
        /\ details' = Append(details, [d |-> d,
                                       src |-> flats[EnrichOrder(idx, Len(flats))].src])
    /\ idx' = idx + 1
    /\ UNCHANGED <<pc, landing, newobject_id, jk, layouts_flats, doc, page_num,
                   error, result, ctl, clicks, noOffersAt, met, pre_enrich>>

\* return flats, line 399
ReturnFlats ==
    /\ pc = "enrich"
    /\ idx > Len(flats)
    /\ result' = flats
    /\ pc' = "returned"
    /\ UNCHANGED <<landing, newobject_id, jk, layouts_flats, doc, page_num, flats,
                   idx, error, ctl, clicks, noOffersAt, met, pre_enrich, details>>

Next ==
    \/ OpenJkPage
    \/ ExtractNewobjectId
    \/ ParseJk
    \/ ExtractLayouts
    \/ GotoFlats
    \/ CheckNoOffers
    \/ ParsePage
    \/ LoopExit
    \/ ClickNext
    \/ EnrichNext
    \/ ReturnFlats

Spec == Init /\ [][Next]_vars

\* --------------------------------------------- one listing page, all inputs
\* The state _parse_flats is in when it enters the crawl loop, for landing
\* document l and first listing document d.
LoopEntry(l, d) ==
    /\ pc = "loop"
    /\ landing = <<l>>
    /\ newobject_id = l.newobject
    /\ jk = JkOf(l, l.newobject)
    /\ layouts_flats = _extract_flats_from_layouts(l.layouts, JkOf(l, l.newobject))
    /\ doc = <<d>>
    /\ page_num = 1
    /\ flats = <<>>
    /\ idx = 0
    /\ error = ""
    /\ result = <<>>
    /\ ctl = <<>>
    /\ clicks = 0
    /\ noOffersAt = 0
    /\ met = 0
    /\ pre_enrich = <<>>
    /\ details = <<>>

PageMatches ==
    {Match("1", "45,6", 9, House1, <<"4", " ", "kv">>, <<"img1">>)}

PageLandings ==
    [newobject : {"100"},
     address : {<<"Y">>},
     status : {<<"Dom", " ", "sdan">>},
     year : {2025},
     layouts : Seqs(PageMatches, MaxLayouts)]

PageObjs ==
    {<<"1", "100">>, <<"2", "200">>, <<"2", "100">>, <<"1", "">>, <<"", "100">>}

PageCards ==
    {Card(id, FALSE, ap[1], ap[2], FALSE, <<>>, <<>>) :
        id \in {"1", "2"}, ap \in {<<456, 5>>, <<0, 5>>, <<456, 0>>}}
    \cup {Card("", FALSE, 456, 5, FALSE, <<>>, <<>>),
          Card("1", TRUE, 456, 5, FALSE, <<>>, <<>>)}

PageDocs ==
    {Doc(FALSE, objs, cards, "absent") :
        objs \in Seqs(PageObjs, MaxPairs), cards \in Seqs(PageCards, MaxCards)}

InitPage == \E l \in PageLandings, d \in PageDocs : LoopEntry(l, d)

SpecPage == InitPage /\ [][ParsePage]_vars

\* --------------------------------------------------- one card, merge inputs
MergeMatches ==
    {Match(x.id, "45,6", 9, x.house, x.finish, <<"img", x.id>>) :
        x \in {y \in [id : {"1", "2"},
                      house : {House1, House2, House3},
                      finish : {<<"Sdan", " ", "v", " ", "2023">>, <<"1", " ", "kv">>,
                                <<"stroitsya">>, <<"2", " ", "kv">>}] :
                 /\ y.id = "1" =>
                        /\ y.house # House2
                        /\ y.finish \in {<<"Sdan", " ", "v", " ", "2023">>,
                                         <<"1", " ", "kv">>}
                 /\ y.id = "2" =>
                        /\ y.house # House1
                        /\ y.finish \in {<<"stroitsya">>, <<"2", " ", "kv">>}}}

MergeLandings ==
    [newobject : {"100"},
     address : {None, <<"Y">>},
     status : {None, <<"Dom", " ", "sdan">>, <<"Stroitsya">>, <<"proekt">>},
     year : {2025},
     layouts : Seqs(MergeMatches, MaxLayouts)]

MergeCards ==
    {Card("1", FALSE, 456, 5, a[1], a[2], t) :
        a \in {<<FALSE, <<>>>>, <<TRUE, <<>>>>, <<TRUE, <<" ">>>>,
               <<TRUE, <<" ", "A", " ", "B", " ">>>>},
        t \in {<<>>, <<"Dom", " ", "sdan">>, <<"Stroitsya">>, <<"Sdan">>,
               <<"Kvartira">>}}

MergeDocs == {Doc(FALSE, <<>>, <<c>>, "absent") : c \in MergeCards}

InitMerge == \E l \in MergeLandings, d \in MergeDocs : LoopEntry(l, d)

SpecMerge == InitMerge /\ [][ParsePage]_vars

\* ------------------------------------------------------------------- claims
Returned == pc = "returned"

Elems(q) == {q[k] : k \in 1..Len(q)}

\* C1: every unit record of a returned list has area > 0 and price > 0, on
\* the card path and on the layout path taken when the listing reports no
\* matching offers.
C1_PositiveAreaAndPrice ==
    Returned => \A f \in Elems(result) : f.area > 0 /\ f.price > 0

\* C2: the returned list never holds two records with the same id.
C2_UniqueIds ==
    Returned =>
        \A a, b \in 1..Len(result) : a # b => result[a].id # result[b].id

\* C3: once the crawl loop has started, the run ends having parsed exactly
\* min(k, 50) pages, k the first page whose next control is not active: every
\* parsed page but the last showed an active control, and the last one is
\* page 50 or shows no active control.
C3_ParsesMinK50Pages ==
    (pc \in {"returned", "raised"} /\ ctl # <<>>) =>
        /\ Len(ctl) <= max_pages
        /\ \A k \in 1..(Len(ctl) - 1) : ctl[k] = "active"
        /\ (Len(ctl) = max_pages \/ ctl[Len(ctl)] # "active")

IsLayoutResult ==
    /\ Len(result) = Len(landing[1].layouts)
    /\ \A k \in 1..Len(result) :
        /\ result[k].id = landing[1].layouts[k].offer_id
        /\ result[k].price = landing[1].layouts[k].price
        /\ result[k].src = <<0, k>>

\* C4 (as claimed): on whichever page of the traversal the body signals no
\* matching offers, no card of that page becomes a record, the run is over
\* and its result is exactly the layout-derived records, in layout order.
C4_NoOffersOnAnyPage ==
    noOffersAt # 0 =>
        /\ Returned
        /\ IsLayoutResult
        /\ \A f \in Elems(flats) : f.src[1] # noOffersAt

\* C4 (amended): when the body of the first listing page, read right after
\* the navigation to the listing, signals no matching offers, no card is
\* parsed, no page is crawled, nothing is enriched and the result is exactly
\* the layout-derived records in layout order; in every other returning run
\* the result is the list the crawl accumulated.
C4_NoOffersOnFirstPage ==
    /\ noOffersAt = 1 =>
        /\ Returned
        /\ IsLayoutResult
        /\ flats = <<>> /\ ctl = <<>> /\ clicks = 0 /\ details = <<>>
    /\ (Returned /\ noOffersAt # 1) => (result = flats /\ ctl # <<>>)

C4_Witness ==
    /\ Returned
    /\ noOffersAt = 1
    /\ Len(result) = 2
    /\ doc[1].cards # <<>>

ExpectedBuilding(d) ==
    IF d.meta # None THEN d.meta
    ELSE IF d.title # None THEN d.title
    ELSE IF d.house = House1 THEN <<"1k1">>
    ELSE None

\* C5: enrichment failures are isolated.  Once an attempt has been made the
\* run never raises; the list keeps its records in their positions; a record
\* whose attempt failed equals its pre-enrichment value in every field; a
\* record whose attempt succeeded carries the detail document's building in
\* its address and the detail document's photos, and its other fields as
\* before; records not yet attempted are untouched.
C5_EnrichmentIsolated ==
    /\ details # <<>> => pc \in {"enrich", "returned"}
    /\ pc \in {"enrich", "returned"} =>
        /\ Len(flats) = Len(pre_enrich)
        /\ Len(details) <= Len(flats)
        /\ \A k \in 1..Len(flats) :
            IF k > Len(details) \/ details[k].d.fail # "none"
            THEN flats[k] = pre_enrich[k]
            ELSE LET b == ExpectedBuilding(details[k].d)
                 IN /\ flats[k].address =
                        IF b # None THEN Fmt(jk.address) \o <<",", " ">> \o b
                        ELSE pre_enrich[k].address
                    /\ flats[k].images =
                        IF details[k].d.photos # <<>> THEN details[k].d.photos
                        ELSE pre_enrich[k].images
                    /\ [flats[k] EXCEPT !.address = <<>>, !.images = <<>>]
                       = [pre_enrich[k] EXCEPT !.address = <<>>, !.images = <<>>]
    /\ (Returned /\ noOffersAt # 1) => (result = flats /\ Len(details) = Len(flats))

C5_Witness ==
    /\ Returned
    /\ Len(details) = 2
    /\ details[1].d.fail = "content"
    /\ details[2].d.fail = "none"
    /\ result[1] = pre_enrich[1]
    /\ result[2].address # pre_enrich[2].address
    /\ result[2].images # pre_enrich[2].images

\* C6: the only failure that leaves a run is the failure to find the
\* development identifier in the landing document.
C6_OnlyIdentifierFailurePropagates ==
    pc = "raised" => error = "NewObjectIdNotFound"

Before(s, t) == s[1] < t[1] \/ (s[1] = t[1] /\ s[2] < t[2])

InEncounterOrder(q) == \A a, b \in 1..Len(q) : a < b => Before(q[a].src, q[b].src)

\* C10: the records are in the order their cards were met (page by page,
\* within a page in card order); the k-th enrichment attempt is on the k-th
\* record, so every record is attempted at most once, and exactly once in a
\* run that returns from the crawl; attempts are made only after the crawl
\* loop has ended, on the list the crawl left.
C10_Ordering ==
    /\ InEncounterOrder(flats)
    /\ Returned => InEncounterOrder(result)
    /\ Len(details) <= Len(flats)
    /\ \A k \in 1..Len(details) : details[k].src = flats[k].src
    /\ details # <<>> =>
        /\ pc \in {"enrich", "returned"}
        /\ Len(flats) = Len(pre_enrich)
        /\ Len(details) = idx - 1
    /\ (Returned /\ noOffersAt # 1) => (Len(details) = Len(result) /\ result = flats)

C10_Witness ==
    /\ Returned
    /\ Len(result) = 2
    /\ result[1].src = <<1, 1>>
    /\ result[2].src = <<2, 1>>
    /\ Len(details) = 2
    /\ details[1].d.fail = "goto"
    /\ details[2].d.fail = "none"

\* what the page's objects say: the child ids whose parent is the development
PairsOfDevelopment(d) ==
    {d.objs[k][1] :
        k \in {h \in 1..Len(d.objs) : d.objs[h][1] # "" /\ d.objs[h][2] = jk.id}}

PageParsed == pc # "loop"

FromCard(k) == \E f \in Elems(flats) : f.src = <<page_num, k>>

\* C7: the filter set of a listing page is exactly the child ids of its
\* (child, parent) pairs whose parent is the development identifier, and when
\* that set is not empty no card without an id or with an id outside it
\* becomes a record.
C7_IdentityFilter ==
    /\ _extract_valid_flat_ids(doc[1].html, jk.id) = PairsOfDevelopment(doc[1])
    /\ (PageParsed /\ PairsOfDevelopment(doc[1]) # {}) =>
        \A k \in 1..Len(doc[1].cards) :
            (doc[1].cards[k].id = "" \/ doc[1].cards[k].id \notin PairsOfDevelopment(doc[1]))
                => ~FromCard(k)

C7_Witness ==
    /\ PageParsed
    /\ doc[1].objs = <<<<"1", "100">>, <<"2", "200">>>>
    /\ Len(doc[1].cards) = 2
    /\ doc[1].cards[1].id = "2" /\ doc[1].cards[1].area > 0 /\ doc[1].cards[1].price > 0
    /\ ~FromCard(1)
    /\ FromCard(2)

Acceptable(c, valid) ==
    /\ ~c.raises
    /\ c.id # ""
    /\ (valid = {} \/ c.id \in valid)
    /\ c.area > 0 /\ c.price > 0

\* C9: a card whose area or price is 0 never becomes a record, whatever its
\* id, the filter set and the layout candidates are; it is dropped without an
\* error, and the other cards of the page are still parsed: every card that
\* has an id passing the filter and non-zero area and price becomes a record.
C9_AcceptanceGate ==
    /\ pc # "raised"
    /\ PageParsed =>
        \A k \in 1..Len(doc[1].cards) :
            /\ (doc[1].cards[k].area = 0 \/ doc[1].cards[k].price = 0) => ~FromCard(k)
            /\ Acceptable(doc[1].cards[k], PairsOfDevelopment(doc[1])) => FromCard(k)

C9_Witness ==
    /\ PageParsed
    /\ Len(doc[1].cards) = 2
    /\ doc[1].cards[1].id = "1" /\ doc[1].cards[1].area = 0
    /\ \E l \in Elems(layouts_flats) : l.id = "1" /\ l.area > 0 /\ l.price > 0
    /\ PairsOfDevelopment(doc[1]) = {"1"}
    /\ ~FromCard(1)
    /\ FromCard(2)

CardAddress(c) == IF c.has_addr THEN Strip(c.addr) ELSE None

CardKeywordStatus(c) ==
    IF c.text = <<"Dom", " ", "sdan">> THEN <<"Sdan">>
    ELSE IF c.text = <<"Stroitsya">> THEN <<"Stroitsya">>
    ELSE None

Matching(c) == {l \in Elems(layouts_flats) : l.id = c.id}

FirstPresent(a, b, c) == IF a # None THEN a ELSE IF b # None THEN b ELSE c

\* C8: address and status of a record are first-present-wins over card,
\* matching layout candidate, development: the address is the card's address
\* text (stripped) if not empty, else the address of a layout candidate with
\* the card's id if there is one and it is not empty, else the development
\* address; the status is normalize_status of the card's keyword status if a
\* keyword matched, else of the matching layout candidate's status, else of
\* the development status.  Images and year come from a candidate with the
\* card's id or from no candidate: one with another id contributes nothing.
C8_MergePrecedence ==
    PageParsed =>
        \A f \in Elems(flats) :
            LET c == doc[1].cards[f.src[2]]
            IN IF Matching(c) = {}
               THEN /\ f.address = FirstPresent(CardAddress(c), None, jk.address)
                    /\ f.house_status =
                        normalize_status(FirstPresent(CardKeywordStatus(c), None, jk.status))
                    /\ f.images = <<>>
                    /\ f.year_built = jk.year_built
               ELSE \E l \in Matching(c) :
                    /\ f.address = FirstPresent(CardAddress(c), l.address, jk.address)
                    /\ f.house_status =
                        normalize_status(FirstPresent(CardKeywordStatus(c),
                                                      l.house_status, jk.status))
                    /\ f.images = l.images
                    /\ f.year_built = l.year_built

\* card without address text, a layout candidate of another id first, then
\* one of the card's id whose address wins over the development's
C8_Witness ==
    /\ PageParsed
    /\ Len(flats) = 1
    /\ CardAddress(doc[1].cards[1]) = None
    /\ CardKeywordStatus(doc[1].cards[1]) = None
    /\ Len(layouts_flats) = 2
    /\ layouts_flats[1].id = "1"
    /\ layouts_flats[2].id = "2"
    /\ flats[1].address = <<"Y", ",", " ", "1k1">>
    /\ flats[1].address # jk.address
    /\ flats[1].house_status = <<"Sdan">>

CrawlEnded == pc \in {"enrich", "returned"} /\ ctl # <<>>

\* C11 (as claimed): once page 50 has been parsed the next control is not
\* activated any more, and when the crawl has ended the control has been
\* activated exactly (number of parsed pages - 1) times.
C11_NoActivationAfterCap ==
    /\ Len(ctl) = max_pages => clicks <= max_pages - 1
    /\ CrawlEnded => clicks = Len(ctl) - 1

\* C11 (amended): no page beyond page 50 is ever parsed, whatever the next
\* control shows.  When the crawl ends on a page whose control is not active
\* the control has been activated (parsed pages - 1) times; when it ends
\* because of the cap, page 50 showed an active control, which was activated
\* once more (50 activations for 50 parsed pages) and page 51 was loaded but
\* is never parsed.
C11_CapStopsParsing ==
    /\ Len(ctl) <= max_pages
    /\ page_num <= max_pages + 1
    /\ clicks <= max_pages
    /\ CrawlEnded =>
        IF ctl[Len(ctl)] = "active"
        THEN Len(ctl) = max_pages /\ clicks = max_pages /\ page_num = max_pages + 1
        ELSE clicks = Len(ctl) - 1 /\ page_num = Len(ctl)

C11_Witness ==
    /\ Returned
    /\ Len(ctl) = max_pages
    /\ ctl[max_pages] = "active"
    /\ clicks = max_pages
    /\ page_num = max_pages + 1

\* the parent the page's objects give a child id (none: the empty set)
ParentsOf(d, id) ==
    {d.objs[k][2] : k \in {h \in 1..Len(d.objs) : d.objs[h][1] = id}} \ {""}

\* C12: when the filter set extracted from a listing page is empty (no
\* object of the page pairs a child id with the development identifier), the
\* filter is not applied: every card of the page with an id, a non-zero area
\* and a non-zero price, whose parse does not raise, becomes a record, also a
\* card whose id the page pairs with another development.
C12_EmptyFilterAcceptsAll ==
    /\ (_extract_valid_flat_ids(doc[1].html, jk.id) = {})
        <=> (\A k \in 1..Len(doc[1].objs) :
                doc[1].objs[k][1] = "" \/ doc[1].objs[k][2] # jk.id)
    /\ (PageParsed /\ _extract_valid_flat_ids(doc[1].html, jk.id) = {}) =>
        \A k \in 1..Len(doc[1].cards) :
            LET c == doc[1].cards[k]
            IN FromCard(k) <=> (~c.raises /\ c.id # "" /\ c.area > 0 /\ c.price > 0)

\* a card of a unit the page assigns to development 200 only is in the output
C12_Witness ==
    /\ PageParsed
    /\ doc[1].objs # <<>>
    /\ _extract_valid_flat_ids(doc[1].html, jk.id) = {}
    /\ Len(doc[1].cards) = 2
    /\ ParentsOf(doc[1], doc[1].cards[2].id) = {"200"}
    /\ FromCard(2)
    /\ \E f \in Elems(flats) : f.id = "2" /\ f.src = <<1, 2>>

====
